---- MODULE Spec2Model ----
(***************************************************************************)
(* Model of xodraw.py: the X's and O's drawing module.  The five functions *)
(* drawNewBoard, drawMarker, drawWin, drawBoard and drawGame are operators *)
(* over a "world" w: the turtle of the drawing surface together with what  *)
(* the current call has done so far (instructions issued, pen-down         *)
(* segments drawn, drawNewBoard/drawMarker calls entered, error raised).   *)
(* One action per function applies it to the current turtle.               *)
(***************************************************************************)
EXTENDS Integers, Sequences, FiniteSets, TLC

VARIABLES turtle, log, segs, calls, err, op

vars == <<turtle, log, segs, calls, err, op>>

-----------------------------------------------------------------------------
(* Bounds of the explored inputs *)

MaxSize == 7
MaxMargin == 1
MaxCoord == 3
MaxMoves == 2
MaxNum == 3
MarkerSize == 16
MarkerMargin == 2

(* Program constants *)

_BOARDSIZE == 180
DefaultMargin == 30
TurtleSpeed == 10

Cells == 0..2
Teams == {"X", "O", "x", "o", "", "Z"}

DefaultXY == [t \in {"X", "O", ""} |->
                IF t = "X" THEN "red" ELSE IF t = "O" THEN "green" ELSE "white"]

-----------------------------------------------------------------------------
(* Python helpers *)

\* str.lower() on the team labels of the model
Lower(s) == IF s = "X" THEN "x" ELSE IF s = "O" THEN "o" ELSE s

\* math.floor(size / 3) and math.floor(cellSize / 2) on non-negative ints
FloorDiv(a, b) == a \div b

\* math.floor(cellSize * 0.2): the double 0.2 lies just above 1/5, so the
\* product never falls below the exact quotient
Floor02(c) == c \div 5

\* math.floor(1.4 * cellSize): the double 1.4 lies just below 7/5, and for
\* cellSize 45, 85 and 90 (the cases below 100) the product rounds to just
\* under the exact integer 7*cellSize/5
Floor14(c) == IF c \in {45, 85, 90} THEN ((7 * c) \div 5) - 1 ELSE (7 * c) \div 5

-----------------------------------------------------------------------------
(* The drawing surface.  A position is a point (x, y) plus the number k of *)
(* unit forward steps taken from it round a closed n-step outline (k = 0,  *)
(* n = 1: exactly at the point).  The heading is k n-ths of a full turn.   *)

Pt(x, y) == [x |-> x, y |-> y, k |-> 0, n |-> 1]

Ins(o, a, b, s) == [o |-> o, a |-> a, b |-> b, s |-> s]

Emit(w, i) == [w EXCEPT !.log = Append(@, i)]

initializeTurtle(w, speed, canvas) ==
  [Emit(w, Ins("initializeTurtle", speed, canvas, "")) EXCEPT
     !.t = [pos |-> Pt(canvas \div 2, canvas \div 2), down |-> TRUE,
            hk |-> 0, hn |-> 1, shown |-> TRUE, colour |-> "white"],
     !.segs = <<>>]

hideturtle(w) == [Emit(w, Ins("hideturtle", 0, 0, "")) EXCEPT !.t.shown = FALSE]

color(w, c) == [Emit(w, Ins("color", 0, 0, c)) EXCEPT !.t.colour = c]

penup(w) == [Emit(w, Ins("penup", 0, 0, "")) EXCEPT !.t.down = FALSE]

pendown(w) == [Emit(w, Ins("pendown", 0, 0, "")) EXCEPT !.t.down = TRUE]

goto(w, x, y) ==
  [Emit(w, Ins("goto", x, y, "")) EXCEPT
     !.t.pos = Pt(x, y),
     !.segs = IF w.t.down
              THEN Append(@, [from |-> w.t.pos, to |-> Pt(x, y), kind |-> "line"])
              ELSE @]

\* right(360 / n): one n-th of a full turn
right(w, n) ==
  LET k1 == IF w.t.hn = n THEN (w.t.hk + 1) % n ELSE 1 % n
  IN [Emit(w, Ins("right", 360, n, "")) EXCEPT
        !.t.hk = k1,
        !.t.hn = IF k1 = 0 THEN 1 ELSE n]

\* forward(1) while turning by one n-th of a full turn per step: after n
\* steps the outline closes on its starting point
forward(w, n) ==
  LET p  == w.t.pos
      k1 == IF p.n = n THEN (p.k + 1) % n ELSE 1 % n
      q  == [x |-> p.x, y |-> p.y, k |-> k1, n |-> IF k1 = 0 THEN 1 ELSE n]
  IN [Emit(w, Ins("forward", 1, 0, "")) EXCEPT
        !.t.pos = q,
        !.segs = IF w.t.down
                 THEN Append(@, [from |-> p, to |-> q, kind |-> "arc"])
                 ELSE @]

\* a call of drawNewBoard or drawMarker is entered: remember its arguments
\* and where its instructions start in the log
Enter(w, fn, team, row, col, size, colour, margin) ==
  [w EXCEPT !.calls = Append(@, [fn |-> fn, team |-> team, row |-> row,
                                 col |-> col, size |-> size, colour |-> colour,
                                 margin |-> margin, at |-> Len(w.log)])]

Raise(w, e) == [w EXCEPT !.err = e]

-----------------------------------------------------------------------------
(* drawNewBoard *)

drawNewBoard_shortLine(w, size, colour, margin) ==
  LET cellSize   == FloorDiv(size, 3)
      boardSize  == cellSize * 3
      canvasSize == size + (2 * margin)
      w0 == color(hideturtle(initializeTurtle(
               Enter(w, "drawNewBoard", "", 0, 0, size, colour, margin),
               TurtleSpeed, canvasSize)), colour)
      w1 == goto(pendown(goto(penup(w0), margin + cellSize, margin)),
                 margin + cellSize, margin + size)
      w2 == goto(pendown(goto(penup(w1), margin + boardSize - cellSize, margin)),
                 margin + boardSize - cellSize, margin + boardSize)
      w3 == goto(pendown(goto(penup(w2), margin, margin + cellSize)),
                 margin + boardSize, margin + cellSize)
      w4 == goto(pendown(goto(penup(w3), margin, margin + boardSize - cellSize)),
                 margin + boardSize, margin + boardSize - cellSize)
  IN w4

drawNewBoard(w, size, colour, margin) ==
  LET cellSize   == FloorDiv(size, 3)
      boardSize  == cellSize * 3
      canvasSize == size + (2 * margin)
      w0 == color(hideturtle(initializeTurtle(
               Enter(w, "drawNewBoard", "", 0, 0, size, colour, margin),
               TurtleSpeed, canvasSize)), colour)
      w1 == goto(pendown(goto(penup(w0), margin + cellSize, margin)),
                 margin + cellSize, margin + boardSize)
      w2 == goto(pendown(goto(penup(w1), margin + boardSize - cellSize, margin)),
                 margin + boardSize - cellSize, margin + boardSize)
      w3 == goto(pendown(goto(penup(w2), margin, margin + cellSize)),
                 margin + boardSize, margin + cellSize)
      w4 == goto(pendown(goto(penup(w3), margin, margin + boardSize - cellSize)),
                 margin + boardSize, margin + boardSize - cellSize)
  IN w4

-----------------------------------------------------------------------------
(* drawMarker *)

\* (an error raised by a call ends the enclosing loops)
\* for s in range(steps): for ss in range(step_len): right(...); forward(1)
RECURSIVE OLoop(_, _, _)
OLoop(w, todo, n) ==
  IF (w.err # "none") \/ (todo <= 0) THEN w ELSE OLoop(forward(right(w, n), n), todo - 1, n)

drawO(w, pos, cellSize, margin) ==
  LET o_offset_horizontal == Floor02(cellSize)
      o_offset_vertical   == FloorDiv(cellSize, 2)
      w1 == pendown(goto(penup(w),
                         margin + (cellSize * pos[2]) + o_offset_horizontal,
                         margin + (cellSize * pos[1]) + o_offset_vertical))
      steps    == Floor14(cellSize) - (o_offset_horizontal * 2)
      step_len == 2
  IN OLoop(w1, steps * step_len, steps * step_len)

drawX(w, pos, cellSize, margin) ==
  LET x_offset == Floor02(cellSize)
      w1 == goto(pendown(goto(penup(w),
                              margin + (cellSize * pos[2]) + x_offset,
                              margin + (cellSize * pos[1]) + x_offset)),
                 margin + (cellSize * pos[2]) + (cellSize - x_offset),
                 margin + (cellSize * pos[1]) + (cellSize - x_offset))
      w2 == goto(pendown(goto(penup(w1),
                              margin + (cellSize * pos[2]) + (cellSize - x_offset),
                              margin + (cellSize * pos[1]) + x_offset)),
                 margin + (cellSize * pos[2]) + x_offset,
                 margin + (cellSize * pos[1]) + (cellSize - x_offset))
  IN w2

\* the X branch taken by a plain else
drawMarker_elseX(w, team, pos, size, colour, margin) ==
  LET cellSize == FloorDiv(size, 3)
      w0 == color(hideturtle(
               Enter(w, "drawMarker", team, pos[1], pos[2], size, colour, margin)),
               colour)
  IN IF Lower(team) = "o" THEN drawO(w0, pos, cellSize, margin)
     ELSE drawX(w0, pos, cellSize, margin)

\* the position looked up in a 3x3 table before drawing
drawMarker_indexed(w, team, pos, size, colour, margin) ==
  LET cellSize == FloorDiv(size, 3)
      w0 == color(hideturtle(
               Enter(w, "drawMarker", team, pos[1], pos[2], size, colour, margin)),
               colour)
  IN IF pos[1] \notin Cells \/ pos[2] \notin Cells THEN Raise(w0, "IndexError")
     ELSE IF Lower(team) = "o" THEN drawO(w0, pos, cellSize, margin)
     ELSE IF Lower(team) = "x" THEN drawX(w0, pos, cellSize, margin)
     ELSE w0

drawMarker(w, team, pos, size, colour, margin) ==
  LET cellSize == FloorDiv(size, 3)
      w0 == color(hideturtle(
               Enter(w, "drawMarker", team, pos[1], pos[2], size, colour, margin)),
               colour)
  IN IF Lower(team) = "o" THEN drawO(w0, pos, cellSize, margin)
     ELSE IF Lower(team) = "x" THEN drawX(w0, pos, cellSize, margin)
     ELSE w0

-----------------------------------------------------------------------------
(* drawWin *)

\* row taken for x and column for y
drawWin_swapped(w, startPos, endPos, size, colour, margin) ==
  LET cellSize == FloorDiv(size, 3)
      offset   == FloorDiv(cellSize, 2)
      w0 == color(hideturtle(w), colour)
      w1 == goto(penup(w0),
                 margin + (cellSize * startPos[1]) + offset,
                 margin + (cellSize * startPos[2]) + offset)
  IN goto(pendown(w1),
          margin + (cellSize * endPos[1]) + offset,
          margin + (cellSize * endPos[2]) + offset)

\* the pen left down while moving to the start of the win line
drawWin_noPenup(w, startPos, endPos, size, colour, margin) ==
  LET cellSize == FloorDiv(size, 3)
      offset   == FloorDiv(cellSize, 2)
      w0 == color(hideturtle(w), colour)
      w1 == goto(w0,
                 margin + (cellSize * startPos[2]) + offset,
                 margin + (cellSize * startPos[1]) + offset)
  IN goto(pendown(w1),
          margin + (cellSize * endPos[2]) + offset,
          margin + (cellSize * endPos[1]) + offset)

drawWin(w, startPos, endPos, size, colour, margin) ==
  LET cellSize == FloorDiv(size, 3)
      offset   == FloorDiv(cellSize, 2)
      w0 == color(hideturtle(w), colour)
      w1 == goto(penup(w0),
                 margin + (cellSize * startPos[2]) + offset,
                 margin + (cellSize * startPos[1]) + offset)
  IN goto(pendown(w1),
          margin + (cellSize * endPos[2]) + offset,
          margin + (cellSize * endPos[1]) + offset)

-----------------------------------------------------------------------------
(* drawBoard *)

\* board[row][col] and game[i] are 0-based in the code, 1-based here

\* if ((len(board) == 0) or newBoard)
BoardNeedsNew_always(board, newBoard) == TRUE

BoardNeedsNew_flagOnly(board, newBoard) == newBoard

BoardNeedsNew(board, newBoard) == (Len(board) = 0) \/ newBoard

RECURSIVE BoardLoop(_, _, _, _, _, _)
BoardLoop(w, board, i, size, xy_colour, margin) ==
  IF (w.err # "none") \/ (i >= Len(board) * Len(board[1])) THEN w
  ELSE LET row == FloorDiv(i, Len(board))
           col == i % Len(board)
       IN IF row >= Len(board) THEN Raise(w, "IndexError")
          ELSE IF col >= Len(board[row + 1]) THEN Raise(w, "IndexError")
          ELSE LET team == board[row + 1][col + 1]
               IN IF team \notin DOMAIN xy_colour THEN Raise(w, "KeyError")
                  ELSE BoardLoop(drawMarker(w, team, <<row, col>>, size,
                                            xy_colour[team], margin),
                                 board, i + 1, size, xy_colour, margin)

drawBoard(w, board, size, board_colour, xy_colour, margin, newBoard) ==
  LET w0 == IF BoardNeedsNew(board, newBoard)
            THEN drawNewBoard(w, size, board_colour, margin)
            ELSE w
  IN IF Len(board) < 1 THEN w0
     ELSE IF Len(board[1]) < 1 THEN w0
     ELSE BoardLoop(w0, board, 0, size, xy_colour, margin)

-----------------------------------------------------------------------------
(* drawGame *)

\* game[i] for a Python list: a negative index counts from the end, an
\* index outside -len .. len-1 raises IndexError
InRangeIndex(game, i) == (i >= 0 - Len(game)) /\ (i < Len(game))

PyIndex(game, i) == IF i < 0 THEN game[Len(game) + i + 1] ELSE game[i + 1]

\* a move whose team has no colour skipped instead of failing
RECURSIVE GameLoop_skip(_, _, _, _, _, _, _)
GameLoop_skip(w, game, i, lastMove, size, xy_colour, margin) ==
  IF (w.err # "none") \/ (i >= lastMove) THEN w
  ELSE IF ~InRangeIndex(game, i) THEN Raise(w, "IndexError")
  ELSE LET row  == PyIndex(game, i)[1]
           col  == PyIndex(game, i)[2]
           team == PyIndex(game, i)[3]
       IN IF team \notin DOMAIN xy_colour
          THEN GameLoop_skip(w, game, i + 1, lastMove, size, xy_colour, margin)
          ELSE GameLoop_skip(drawMarker(w, team, <<row, col>>, size,
                                        xy_colour[team], margin),
                             game, i + 1, lastMove, size, xy_colour, margin)

RECURSIVE GameLoop(_, _, _, _, _, _, _)
GameLoop(w, game, i, lastMove, size, xy_colour, margin) ==
  IF (w.err # "none") \/ (i >= lastMove) THEN w
  ELSE IF ~InRangeIndex(game, i) THEN Raise(w, "IndexError")
  ELSE LET row  == PyIndex(game, i)[1]
           col  == PyIndex(game, i)[2]
           team == PyIndex(game, i)[3]
       IN IF team \notin DOMAIN xy_colour THEN Raise(w, "KeyError")
          ELSE GameLoop(drawMarker(w, team, <<row, col>>, size,
                                   xy_colour[team], margin),
                        game, i + 1, lastMove, size, xy_colour, margin)

drawGame(w, game, numMoves, size, board_colour, xy_colour, margin, newBoard) ==
  LET w0 == IF (Len(game) < 1) \/ newBoard
            THEN drawNewBoard(w, size, board_colour, margin)
            ELSE w
      firstMove == IF numMoves < 1 THEN 0 ELSE Len(game) - numMoves
      lastMove  == Len(game)
  IN GameLoop(w0, game, firstMove, lastMove, size, xy_colour, margin)

-----------------------------------------------------------------------------
(* Inputs *)

\* (size, margin) of a blank board: the small sizes and margins, and the
\* defaults
BoardArgs == ((0..MaxSize) \X (0..MaxMargin)) \cup {<<_BOARDSIZE, DefaultMargin>>}

\* marker positions (row, col): cells of the grid and positions outside it,
\* one by its row and one by its column
Positions == {<<0, 0>>, <<2, 1>>, <<MaxCoord, 2>>, <<1, MaxCoord>>}

\* win lines: every pair of cells on a small board, and the default call
WinArgs == ((Cells \X Cells) \X (Cells \X Cells) \X {MarkerSize} \X {MarkerMargin})
           \cup {<<<<0, 0>>, <<2, 2>>, _BOARDSIZE, DefaultMargin>>}

\* boards of R rows and C columns whose cells repeat a pair of teams in
\* row-major order; R = 0 is the empty board [] and C = 0 a board of empty
\* rows.  "x" has no colour in the default mapping
BoardPairs == {<<"", "">>, <<"X", "">>, <<"", "X">>, <<"X", "x">>, <<"x", "X">>}

BoardDims == {<<0, 0>>, <<2, 0>>, <<1, 1>>, <<1, 2>>, <<2, 3>>, <<3, 2>>, <<3, 3>>}

MkBoard(R, C, a, b) ==
  [r \in 1..R |-> [c \in 1..C |->
      IF (((r - 1) * C) + (c - 1)) % 2 = 0 THEN a ELSE b]]

Boards == {MkBoard(d[1][1], d[1][2], d[2][1], d[2][2]) : d \in BoardDims \X BoardPairs}

\* moves (row, col, team): one in the grid, one outside it, and one whose
\* team has no colour in the default mapping
Moves == {<<0, 0, "X">>, <<MaxCoord, 2, "O">>, <<2, 1, "x">>}

Games == UNION {[1..n -> Moves] : n \in 0..MaxMoves}

\* -1 is the documented "all moves"
NumMovesArgs == {0 - 1} \cup (1..MaxNum)

NoOp == [name |-> "none", team |-> "", pos |-> <<0, 0>>, endPos |-> <<0, 0>>,
         size |-> 0, margin |-> 0, board |-> <<>>, game |-> <<>>,
         numMoves |-> 0, newBoard |-> FALSE]

-----------------------------------------------------------------------------
(* State machine: each action is one call of a function of the module *)

\* the surface before the first call: pen down at the centre of the default
\* canvas, cursor shown
Init ==
  /\ turtle = [pos |-> Pt(400, 250), down |-> TRUE, hk |-> 0, hn |-> 1,
               shown |-> TRUE, colour |-> "white"]
  /\ log = <<>>
  /\ segs = <<>>
  /\ calls = <<>>
  /\ err = "none"
  /\ op = NoOp

Fresh == [t |-> turtle, log |-> <<>>, segs |-> <<>>, calls |-> <<>>, err |-> "none"]

Commit(w, o) ==
  /\ turtle' = w.t
  /\ log' = w.log
  /\ segs' = w.segs
  /\ calls' = w.calls
  /\ err' = w.err
  /\ op' = o

CallDrawNewBoard ==
  \E a \in BoardArgs :
    Commit(drawNewBoard(Fresh, a[1], "white", a[2]),
           [NoOp EXCEPT !.name = "drawNewBoard", !.size = a[1], !.margin = a[2]])

CallDrawMarker ==
  \E team \in Teams, pos \in Positions :
    Commit(drawMarker(Fresh, team, pos, MarkerSize, "white", MarkerMargin),
           [NoOp EXCEPT !.name = "drawMarker", !.team = team, !.pos = pos,
                        !.size = MarkerSize, !.margin = MarkerMargin])

CallDrawWin ==
  \E a \in WinArgs :
    Commit(drawWin(Fresh, a[1], a[2], a[3], "yellow", a[4]),
           [NoOp EXCEPT !.name = "drawWin", !.pos = a[1], !.endPos = a[2],
                        !.size = a[3], !.margin = a[4]])

CallDrawBoard ==
  \E board \in Boards, newBoard \in BOOLEAN :
    Commit(drawBoard(Fresh, board, MarkerSize, "white", DefaultXY, MarkerMargin,
                     newBoard),
           [NoOp EXCEPT !.name = "drawBoard", !.board = board,
                        !.size = MarkerSize, !.margin = MarkerMargin,
                        !.newBoard = newBoard])

CallDrawGame ==
  \E game \in Games, numMoves \in NumMovesArgs, newBoard \in BOOLEAN :
    Commit(drawGame(Fresh, game, numMoves, MarkerSize, "white", DefaultXY,
                    MarkerMargin, newBoard),
           [NoOp EXCEPT !.name = "drawGame", !.game = game, !.numMoves = numMoves,
                        !.size = MarkerSize, !.margin = MarkerMargin,
                        !.newBoard = newBoard])

Next ==
  \/ CallDrawNewBoard
  \/ CallDrawMarker
  \/ CallDrawWin
  \/ CallDrawBoard
  \/ CallDrawGame

Spec == Init /\ [][Next]_vars

-----------------------------------------------------------------------------
(* What the last call did, read from the state *)

Line(x1, y1, x2, y2) == [from |-> Pt(x1, y1), to |-> Pt(x2, y2), kind |-> "line"]

IsMarkerCall(c) == c.fn = "drawMarker"

IsNewBoardCall(c) == c.fn = "drawNewBoard"

MarkerCalls == SelectSeq(calls, IsMarkerCall)

NewBoardCalls == SelectSeq(calls, IsNewBoardCall)

Min(a, b) == IF a < b THEN a ELSE b

OutOfRange(row, col) == (row \notin Cells) \/ (col \notin Cells)

HasColour(team) == team \in DOMAIN DefaultXY

\* the j-th marker call was made for this move / this cell and team
CallIs(j, row, col, team) ==
  /\ j <= Len(MarkerCalls)
  /\ MarkerCalls[j].row = row
  /\ MarkerCalls[j].col = col
  /\ MarkerCalls[j].team = team

EmptyBoard3 == MkBoard(3, 3, "", "")

-----------------------------------------------------------------------------
(* C1 *)

\* C1: for every game and numMoves >= 1, drawGame draws only the last
\* numMoves moves (all when there are fewer), each once, in play order, and
\* does not fail.  (Stated for games whose teams all have a colour.)
C1_LastMovesOnly ==
  (/\ op.name = "drawGame"
   /\ op.numMoves >= 1
   /\ \A i \in 1..Len(op.game) : HasColour(op.game[i][3]))
  => LET n == Len(op.game)
         k == Min(op.numMoves, n)
     IN /\ err = "none"
        /\ Len(MarkerCalls) = k
        /\ \A j \in 1..k :
             CallIs(j, op.game[n - k + j][1], op.game[n - k + j][2],
                    op.game[n - k + j][3])

-----------------------------------------------------------------------------
(* C2 *)

\* C2 as stated: drawBoard with an all-empty 3x3 board and the other
\* arguments at their defaults (newBoard False) draws a blank board, one
\* drawNewBoard, and then nine markers in the colour mapped from ''.
C2_EmptyCellsDrawBlankBoard ==
  (op.name = "drawBoard" /\ op.board = EmptyBoard3 /\ ~op.newBoard)
  => (/\ Len(NewBoardCalls) = 1
      /\ IsNewBoardCall(calls[1])
      /\ Len(MarkerCalls) = 9)

\* C2 amended: with an all-empty 3x3 board drawBoard draws the blank board
\* (one drawNewBoard, first) exactly when newBoard is True, and none with the
\* default newBoard False; in both cases it then makes one drawMarker call
\* per cell, nine in all, with team '' and the colour mapped from '', each
\* issuing only hide-cursor and set-colour, and it does not fail.
C2_EmptyCellsBoard ==
  (op.name = "drawBoard" /\ op.board = EmptyBoard3)
  => (/\ err = "none"
      /\ Len(NewBoardCalls) = (IF op.newBoard THEN 1 ELSE 0)
      /\ op.newBoard => IsNewBoardCall(calls[1])
      /\ Len(MarkerCalls) = 9
      /\ \A j \in 1..9 :
           /\ CallIs(j, (j - 1) \div 3, (j - 1) % 3, "")
           /\ MarkerCalls[j].colour = DefaultXY[""]
      /\ Len(log) = (IF op.newBoard THEN 19 ELSE 0) + 18
      /\ Len(segs) = (IF op.newBoard THEN 4 ELSE 0))

C2_Witness ==
  /\ op.name = "drawBoard"
  /\ op.board = EmptyBoard3
  /\ ~op.newBoard
  /\ Len(MarkerCalls) = 9
  /\ Len(NewBoardCalls) = 0

-----------------------------------------------------------------------------
(* C3 *)

\* C3: drawBoard with board = [] makes exactly one drawNewBoard call and then
\* returns without any drawMarker call, whether newBoard is False or True.
C3_EmptyListOneBlankBoard ==
  (op.name = "drawBoard" /\ Len(op.board) = 0)
  => (/\ err = "none"
      /\ Len(calls) = 1
      /\ IsNewBoardCall(calls[1])
      /\ calls[1].size = op.size
      /\ calls[1].margin = op.margin
      /\ Len(segs) = 4)

C3_Witness ==
  /\ op.name = "drawBoard"
  /\ Len(op.board) = 0
  /\ ~op.newBoard
  /\ Len(NewBoardCalls) = 1

-----------------------------------------------------------------------------
(* C4 *)

\* C4: for every size S >= 0 and margin M >= 0 drawNewBoard draws exactly
\* four pen-down segments, with c = floor(S/3): the verticals x = M+c and
\* x = M+2c from y = M to y = M+3c, and the horizontals y = M+c and y = M+2c
\* from x = M to x = M+3c; every endpoint lies inside the canvas of side
\* S + 2M that the same call initialises.
C4_GridLines ==
  (op.name = "drawNewBoard")
  => LET S == op.size
         M == op.margin
         c == S \div 3
     IN /\ segs = << Line(M + c, M, M + c, M + (3 * c)),
                     Line(M + (2 * c), M, M + (2 * c), M + (3 * c)),
                     Line(M, M + c, M + (3 * c), M + c),
                     Line(M, M + (2 * c), M + (3 * c), M + (2 * c)) >>
        /\ log[1] = Ins("initializeTurtle", TurtleSpeed, S + (2 * M), "")
        /\ \A j \in 1..Len(segs) : \A p \in {segs[j].from, segs[j].to} :
             /\ 0 <= p.x /\ p.x <= log[1].b
             /\ 0 <= p.y /\ p.y <= log[1].b

C4_Witness ==
  /\ op.name = "drawNewBoard"
  /\ op.size % 3 # 0
  /\ op.size >= 3
  /\ op.margin > 0
  /\ Len(segs) = 4

-----------------------------------------------------------------------------
(* C5 *)

\* C5: for every pair of cells drawWin draws exactly one pen-down segment,
\* from the centre of the start cell to the centre of the end cell, the
\* centre of (r, c) being (margin + c*cell + floor(cell/2),
\* margin + r*cell + floor(cell/2)) with cell = floor(size/3); for (0,0),
\* (2,2), size 180, margin 30 it is the segment from (60,60) to (180,180).
C5_WinLine ==
  (op.name = "drawWin")
  => LET cell == op.size \div 3
         half == cell \div 2
         cx(p) == op.margin + (p[2] * cell) + half
         cy(p) == op.margin + (p[1] * cell) + half
     IN /\ segs = << Line(cx(op.pos), cy(op.pos), cx(op.endPos), cy(op.endPos)) >>
        /\ (op.pos = <<0, 0>> /\ op.endPos = <<2, 2>> /\ op.size = 180
              /\ op.margin = 30)
           => segs = << Line(60, 60, 180, 180) >>

C5_Witness ==
  /\ op.name = "drawWin"
  /\ op.pos = <<0, 0>>
  /\ op.endPos = <<2, 2>>
  /\ op.size = 180
  /\ op.margin = 30
  /\ Len(segs) = 1

-----------------------------------------------------------------------------
(* C6 *)

\* C6: drawMarker with the empty-string team, or any team that is neither
\* 'x' nor 'o' case-insensitively, draws nothing: the only instructions are
\* hide-cursor and set-colour, no segment is added, and the pen position,
\* heading and up/down state are what they were before the call.
C6_OtherTeamDrawsNothing ==
  [][(op'.name = "drawMarker" /\ Lower(op'.team) \notin {"x", "o"})
     => (/\ log' = << Ins("hideturtle", 0, 0, ""), Ins("color", 0, 0, "white") >>
         /\ segs' = <<>>
         /\ err' = "none"
         /\ turtle'.pos = turtle.pos
         /\ turtle'.hk = turtle.hk
         /\ turtle'.hn = turtle.hn
         /\ turtle'.down = turtle.down)]_vars

C6_Witness ==
  /\ op.name = "drawMarker"
  /\ op.team = ""
  /\ Len(log) = 2
  /\ turtle.pos # Pt(400, 250)

-----------------------------------------------------------------------------
(* C7 *)

\* the first move drawGame draws when asked for all moves
FirstMoveOutOfRange ==
  /\ op.name = "drawGame"
  /\ op.numMoves < 1
  /\ Len(op.game) >= 1
  /\ OutOfRange(op.game[1][1], op.game[1][2])
  /\ HasColour(op.game[1][3])

MarkerOutOfRange ==
  /\ op.name = "drawMarker"
  /\ OutOfRange(op.pos[1], op.pos[2])

\* C7 as stated: a move with an out-of-range row or col passed to drawGame,
\* or such a position passed to drawMarker, ends the call in an error and no
\* drawing instruction is issued for that position.
C7_OutOfRangeFails ==
  (MarkerOutOfRange \/ FirstMoveOutOfRange)
  => err # "none"

\* C7 amended: the module does not check the range of row and col.  A
\* drawMarker call for an out-of-range position raises no error and draws the
\* marker at the coordinates the cell formula extrapolates to (for X the
\* two diagonals of the square at (margin + cell*col, margin + cell*row),
\* for O an outline starting at (margin + cell*col + floor(0.2*cell),
\* margin + cell*row + floor(cell/2))); drawGame enters drawMarker for such
\* a move like for any other.
C7_OutOfRangeDrawn ==
  /\ MarkerOutOfRange
     => LET cell == op.size \div 3
            x0   == op.margin + (cell * op.pos[2])
            y0   == op.margin + (cell * op.pos[1])
            off  == cell \div 5
        IN /\ err = "none"
           /\ Lower(op.team) = "x"
              => segs = << Line(x0 + off, y0 + off,
                                x0 + cell - off, y0 + cell - off),
                           Line(x0 + cell - off, y0 + off,
                                x0 + off, y0 + cell - off) >>
           /\ Lower(op.team) = "o"
              => /\ Len(segs) > 0
                 /\ \A j \in 1..Len(segs) :
                      /\ segs[j].kind = "arc"
                      /\ segs[j].from.x = x0 + off
                      /\ segs[j].from.y = y0 + (cell \div 2)
  /\ FirstMoveOutOfRange
     => /\ err # "IndexError"
        /\ CallIs(1, op.game[1][1], op.game[1][2], op.game[1][3])
        /\ Len(segs) > 0

C7_Witness ==
  /\ MarkerOutOfRange
  /\ op.team = "X"
  /\ op.pos[1] > 2
  /\ Len(segs) = 2
  /\ err = "none"

-----------------------------------------------------------------------------
(* C8 *)

\* C8: for every non-empty rectangular board of R >= 1 rows and C >= 1
\* columns, square or not, drawBoard makes exactly one drawMarker call per
\* cell, in row-major order, each with the team stored at board[row][col],
\* and does not fail.  (Stated for boards whose teams all have a colour.)
C8_RowMajor ==
  (/\ op.name = "drawBoard"
   /\ Len(op.board) >= 1
   /\ Len(op.board[1]) >= 1
   /\ \A r \in 1..Len(op.board) : \A c \in 1..Len(op.board[1]) :
        HasColour(op.board[r][c]))
  => LET R == Len(op.board)
         C == Len(op.board[1])
     IN /\ err = "none"
        /\ Len(MarkerCalls) = R * C
        /\ \A j \in 1..(R * C) :
             CallIs(j, (j - 1) \div C, (j - 1) % C,
                    op.board[((j - 1) \div C) + 1][((j - 1) % C) + 1])

-----------------------------------------------------------------------------
(* C9 *)

\* The elements the loop of the last drawBoard or drawGame call goes
\* through, in the order of the loop: element j (from 1) of drawGame is
\* game[firstMove + j - 1], element j of drawBoard is the cell the loop
\* computes for i = j - 1.
LoopLen ==
  IF op.name = "drawGame"
  THEN IF op.numMoves < 1 THEN Len(op.game) ELSE op.numMoves
  ELSE IF op.name = "drawBoard" /\ Len(op.board) >= 1
  THEN Len(op.board) * Len(op.board[1])
  ELSE 0

GameIndex(j) ==
  (IF op.numMoves < 1 THEN 0 ELSE Len(op.game) - op.numMoves) + (j - 1)

BoardRow(j) == (j - 1) \div Len(op.board)

BoardCol(j) == (j - 1) % Len(op.board)

\* element j exists (no IndexError when it is fetched)
Fetched(j) ==
  IF op.name = "drawGame"
  THEN (GameIndex(j) >= 0 - Len(op.game)) /\ (GameIndex(j) < Len(op.game))
  ELSE (BoardRow(j) < Len(op.board)) /\ (BoardCol(j) < Len(op.board[1]))

Element(j) ==
  IF op.name = "drawGame"
  THEN IF GameIndex(j) < 0 THEN op.game[Len(op.game) + GameIndex(j) + 1]
       ELSE op.game[GameIndex(j) + 1]
  ELSE <<BoardRow(j), BoardCol(j), op.board[BoardRow(j) + 1][BoardCol(j) + 1]>>

\* the loop reaches element j, and its team has no colour
ReachesColourless(j) ==
  /\ j \in 1..LoopLen
  /\ \A k \in 1..(j - 1) : Fetched(k) /\ HasColour(Element(k)[3])
  /\ Fetched(j)
  /\ ~HasColour(Element(j)[3])

BlankBoardAsked ==
  \/ op.newBoard
  \/ op.name = "drawGame" /\ Len(op.game) < 1
  \/ op.name = "drawBoard" /\ Len(op.board) = 0

CountOf(o) == Cardinality({k \in 1..Len(log) : log[k].o = o})

\* C9: when drawGame or drawBoard reaches an element whose team has no key
\* in xy_colour, the call fails there: the blank board (if asked for) and the
\* markers of all earlier elements have been drawn, no instruction is issued
\* for the failing element (every hide-cursor in the log opens one of the
\* calls made, and the log ends with the last marker drawn), and no later
\* element is drawn.
C9_MissingColourAborts ==
  \A j \in 1..LoopLen :
    ReachesColourless(j)
    => /\ err = "KeyError"
       /\ Len(NewBoardCalls) = (IF BlankBoardAsked THEN 1 ELSE 0)
       /\ Len(MarkerCalls) = j - 1
       /\ \A k \in 1..(j - 1) :
            /\ CallIs(k, Element(k)[1], Element(k)[2], Element(k)[3])
            /\ MarkerCalls[k].colour = DefaultXY[Element(k)[3]]
       /\ CountOf("hideturtle") = Len(calls)
       /\ CountOf("color") = Len(calls)
       /\ (j = 1 /\ ~BlankBoardAsked) => (log = <<>> /\ segs = <<>>)

C9_Witness ==
  /\ op.name = "drawGame"
  /\ err = "KeyError"
  /\ Len(op.game) = 2
  /\ Len(MarkerCalls) = 1
  /\ Len(segs) > 0

-----------------------------------------------------------------------------
(* C10 *)

\* the pen-down lines of the shapes of a call: the four grid lines of a
\* blank board, the two diagonals of an X
GridLines(S, M) ==
  LET c == S \div 3
  IN { Line(M + c, M, M + c, M + (3 * c)),
       Line(M + (2 * c), M, M + (2 * c), M + (3 * c)),
       Line(M, M + c, M + (3 * c), M + c),
       Line(M, M + (2 * c), M + (3 * c), M + (2 * c)) }

XLines(row, col, S, M) ==
  LET c   == S \div 3
      x0  == M + (c * col)
      y0  == M + (c * row)
      off == c \div 5
  IN { Line(x0 + off, y0 + off, x0 + c - off, y0 + c - off),
       Line(x0 + c - off, y0 + off, x0 + off, y0 + c - off) }

OStart(row, col, S, M) ==
  LET c == S \div 3
  IN <<M + (c * col) + (c \div 5), M + (c * row) + (c \div 2)>>

WinLines ==
  IF op.name = "drawWin"
  THEN LET c == op.size \div 3
       IN { Line(op.margin + (c * op.pos[2]) + (c \div 2),
                 op.margin + (c * op.pos[1]) + (c \div 2),
                 op.margin + (c * op.endPos[2]) + (c \div 2),
                 op.margin + (c * op.endPos[1]) + (c \div 2)) }
  ELSE {}

ShapeLines ==
  WinLines \cup
  UNION { IF IsNewBoardCall(calls[k])
          THEN GridLines(calls[k].size, calls[k].margin)
          ELSE IF Lower(calls[k].team) = "x"
          THEN XLines(calls[k].row, calls[k].col, calls[k].size, calls[k].margin)
          ELSE {} : k \in 1..Len(calls) }

OStarts ==
  { OStart(calls[k].row, calls[k].col, calls[k].size, calls[k].margin) :
      k \in {i \in 1..Len(calls) : Lower(calls[i].team) = "o"} }

\* C10: whatever calls were made before, and in whatever order, a call draws
\* no stray connecting line: every move-to is issued either with the pen
\* just lifted (a pen-up immediately precedes it) or as the second end of a
\* line whose first end was reached with the pen up, so every pen-down
\* segment is a grid line, an X diagonal, a step of an O outline or the win
\* line of the call.
C10_NoStrayLine ==
  /\ \A k \in 1..Len(log) :
       log[k].o = "goto"
       => \/ k > 1 /\ log[k - 1].o = "penup"
          \/ /\ k > 3
             /\ log[k - 1].o = "pendown"
             /\ log[k - 2].o = "goto"
             /\ log[k - 3].o = "penup"
  /\ \A j \in 1..Len(segs) :
       IF segs[j].kind = "line"
       THEN segs[j] \in ShapeLines
       ELSE <<segs[j].from.x, segs[j].from.y>> \in OStarts
  /\ turtle.down \/ op.name \notin {"drawNewBoard", "drawWin"}

C10_Witness ==
  /\ op.name = "drawGame"
  /\ ~op.newBoard
  /\ err = "none"
  /\ Len(MarkerCalls) = 2
  /\ MarkerCalls[1].team = "X"
  /\ MarkerCalls[2].team = "O"
  /\ Len(segs) > 2

====
